---- MODULE Spec2Model ----
(***************************************************************************)
(* State-machine model of custom_components/meteo_station/sensor.py:       *)
(* CompressedJSONCache, APIClient, BackgroundUpdater, the sensor entities  *)
(* and async_setup_platform, run on one asyncio event loop.                *)
(*                                                                         *)
(* Time is counted in minutes.  Observation values are counted in          *)
(* hundredths (20.25 is 2025); observation times in half seconds.          *)
(***************************************************************************)
EXTENDS Integers, Sequences, FiniteSets, TLC

VARIABLES
    now,        \* datetime.utcnow(), minutes
    cache,      \* CompressedJSONCache: _data, _hash, _last_update
    call,       \* the last direct call of a CompressedJSONCache method
    session,    \* APIClient._session is set
    task,       \* BackgroundUpdater._task: 0 is None, else the task's number
    loops,      \* the _update_loop tasks created so far, by number
    sensors,    \* BackgroundUpdater._sensors: the objects the set holds
    tbl,        \* the hash table of _sensors: its mask and its deleted slots
    sens,       \* the sensor objects
    setup,      \* the async_setup_platform calls, by platform
    fetches,    \* fetch_data calls made so far
    ev          \* how the last async_update call that ended did end

progVars == <<session, task, loops, sensors, tbl, sens, setup, fetches, ev>>

vars ==
    <<now, cache, call, session, task, loops, sensors, tbl, sens, setup, fetches,
      ev>>

\* Python's None, for an optional document and for an optional number
NoneDoc == [some |-> FALSE, v |-> <<>>]

NoneInt == [some |-> FALSE, v |-> 0]

Some(x) == [some |-> TRUE, v |-> x]

\* ---------------------------------------------------------------- constants

CACHE_TTL == 5

SCAN_INTERVAL == 15

\* The clock stops advancing here.
MaxTime == 15

\* ---------------------------------------------------------------- payloads
\* A byte payload is known by what the code does with it: its crc32, whether
\* gzip.decompress accepts it ("ok"), rejects it with BadGzipFile/zlib.error
\* ("bad") or fails otherwise, e.g. EOFError on a truncated stream ("eof"),
\* whether json.loads accepts its text, and the document it then yields.

\* An observation: value is a number (hundredths) unless numeric is FALSE;
\* time is absent ("absent"), unparsable ("bad") or parses to `at` ("ok").
Obs(pol, numeric, value, tkind, at) ==
    [pol |-> pol, numeric |-> numeric, value |-> value,
     time |-> [kind |-> tkind, at |-> at]]

Station(id, city, pollutants) ==
    [id |-> id, cityName |-> city, pollutants |-> pollutants]

Payload(name, crc, gz, valid, doc) ==
    [name |-> name, crc |-> crc, gz |-> gz, valid |-> valid, doc |-> doc]

DocAB ==
    << Station("A", "K", << Obs("Temperature", TRUE, 2000, "ok", 7) >>),
       Station("B", "K", << Obs("Humidity", TRUE, 4550, "ok", 8),
                            Obs("Temperature", TRUE, 2200, "ok", 9) >>) >>

DocB ==
    << Station("B", "K", << Obs("Humidity", TRUE, 4450, "ok", 11) >>) >>

\* The payloads the cache's methods are called with directly.
CachePayloads ==
    { Payload("plainAB", 1, "bad", TRUE, DocAB),
      Payload("gzipB", 2, "ok", TRUE, DocB),
      Payload("collideB", 1, "bad", TRUE, DocB),      \* same crc32 as plainAB
      Payload("garbage", 3, "bad", FALSE, <<>>),
      Payload("gzipGarbage", 4, "ok", FALSE, <<>>),
      Payload("truncated", 5, "eof", TRUE, DocAB),
      Payload("emptyList", 6, "bad", TRUE, <<>>) }

\* ------------------------------------------------------ CompressedJSONCache

EmptyCache == [data |-> NoneDoc, hash |-> NoneInt, last_update |-> NoneInt]

\* bool(x) of an optional document
Truthy(d) == d.some /\ d.v # <<>>

\* The two decode paths of update: the document, or None when json.loads or
\* the decompression raises.
DecodeBoth(raw) ==
    IF raw.gz = "ok" THEN (IF raw.valid THEN Some(raw.doc) ELSE NoneDoc)
    ELSE IF raw.gz = "bad" THEN (IF raw.valid THEN Some(raw.doc) ELSE NoneDoc)
    ELSE NoneDoc

Stored(raw, t) ==
    [data |-> DecodeBoth(raw), hash |-> Some(raw.crc), last_update |-> Some(t)]

\* update with the fingerprint written before the decode
UpdateHashFirst(c, raw, t) ==
    IF Some(raw.crc) # c.hash
    THEN IF ~DecodeBoth(raw).some
         THEN [cache |-> [c EXCEPT !.hash = Some(raw.crc)], decoded |-> TRUE,
               raised |-> FALSE]
         ELSE [cache |-> Stored(raw, t), decoded |-> TRUE, raised |-> FALSE]
    ELSE [cache |-> c, decoded |-> FALSE, raised |-> FALSE]

\* update without the fingerprint test
UpdateNoHashTest(c, raw, t) ==
    IF ~DecodeBoth(raw).some
    THEN [cache |-> c, decoded |-> TRUE, raised |-> FALSE]
    ELSE [cache |-> Stored(raw, t), decoded |-> TRUE, raised |-> FALSE]

\* CompressedJSONCache.update(raw) at time t: the cache after the call, whether
\* a decode was attempted, and whether an exception left the call.
CacheUpdate(c, raw, t) ==
    IF Some(raw.crc) # c.hash
    THEN IF ~DecodeBoth(raw).some
         THEN [cache |-> c, decoded |-> TRUE, raised |-> FALSE]
         ELSE [cache |-> Stored(raw, t), decoded |-> TRUE, raised |-> FALSE]
    ELSE [cache |-> c, decoded |-> FALSE, raised |-> FALSE]

\* get_data with the window's bound included
GetDataInclusive(c, t) ==
    IF Truthy(c.data) /\ t - c.last_update.v <= CACHE_TTL THEN c.data ELSE NoneDoc

\* CompressedJSONCache.get_data() at time t
GetData(c, t) ==
    IF Truthy(c.data) /\ t - c.last_update.v < CACHE_TTL THEN c.data ELSE NoneDoc

\* ------------------------------------------------------------------ sensors

\* The keys of UNITS
UNITS == {"Temperature", "Humidity", "Air Quality Index"}

\* The configurations of async_setup_platform: sensor_id, sensor_ids, city_name.
PlatformCfg(p) ==
    CASE p = "P1" -> [kind |-> "id", ident |-> "A", ids |-> {}]
      [] p = "P2" -> [kind |-> "ids", ident |-> "", ids |-> {"A", "B"}]
      [] p = "P3" -> [kind |-> "city", ident |-> "K", ids |-> {}]

AllPlatforms == {"P1", "P2", "P3"}

\* One sensor object per platform and key of UNITS.
AllSensors == AllPlatforms \X UNITS

NoSensor == <<"", "">>

\* [p for p in sensor['pollutants'] if p['pol'] == type], first element or None
NoObs == [some |-> FALSE, v |-> Obs("", FALSE, 0, "absent", 0)]

RECURSIVE FirstPoll(_, _)
FirstPoll(pollutants, type) ==
    IF pollutants = <<>> THEN NoObs
    ELSE IF Head(pollutants).pol = type THEN Some(Head(pollutants))
    ELSE FirstPoll(Tail(pollutants), type)

\* The test that selects a station record for a sensor.
Matches(cfg, st) ==
    CASE cfg.kind = "city" -> st.cityName = cfg.ident
      [] cfg.kind = "id" -> st.id = cfg.ident
      [] cfg.kind = "ids" -> st.id \in cfg.ids

\* a latest_time that takes every parsed time as it comes
LaterLast(latest, obs) ==
    IF obs.time.kind = "ok" THEN Some(obs.time.at) ELSE latest

\* latest_time after one more observation: a missing time is skipped, an
\* unparsable one is logged and skipped.
Later(latest, obs) ==
    IF obs.time.kind = "ok" /\ (~latest.some \/ obs.time.at > latest.v)
    THEN Some(obs.time.at)
    ELSE latest

\* The loop over the document: the matched values, the ids appended to
\* _source_ids (OptimizedSensor only) and latest_time.
RECURSIVE Scan(_, _, _, _)
Scan(cfg, type, data, acc) ==
    IF data = <<>> THEN acc
    ELSE LET st == Head(data)
             poll == FirstPoll(st.pollutants, type)
         IN  IF Matches(cfg, st) /\ poll.some
             THEN Scan(cfg, type, Tail(data),
                       [values |-> Append(acc.values,
                                          [numeric |-> poll.v.numeric,
                                           value |-> poll.v.value]),
                        ids |-> IF cfg.kind = "ids" THEN acc.ids
                                ELSE Append(acc.ids, st.id),
                        latest |-> Later(acc.latest, poll.v)])
             ELSE Scan(cfg, type, Tail(data), acc)

EmptyScan == [values |-> <<>>, ids |-> <<>>, latest |-> NoneInt]

RECURSIVE SumValues(_)
SumValues(values) ==
    IF values = <<>> THEN 0 ELSE Head(values).value + SumValues(Tail(values))

AllNumeric(values) == \A i \in 1..Len(values) : values[i].numeric

\* a rounding that cuts the fraction off
RoundDown(n, d) == n \div d

\* round(): the integer nearest to n/d (d > 0), ties to the even one
RoundHalfEven(n, d) ==
    LET q == n \div d
        r == n % d
    IN  IF 2 * r < d THEN q
        ELSE IF 2 * r > d THEN q + 1
        ELSE IF q % 2 = 0 THEN q ELSE q + 1

\* The value _update_state stores for the mean num/den (hundredths):
\* round(value, 1) for Temperature, in hundredths; round(value) otherwise,
\* a whole number.
Rounded(type, num, den) ==
    IF type = "Temperature" THEN 10 * RoundHalfEven(num, 10 * den)
    ELSE RoundHalfEven(num, 100 * den)

\* strftime("%Y-%m-%d %H:%M:%S") of a parsed time: whole seconds
Format(at) == at \div 2

\* _update_state that stores the value as it comes
UpdateStateRaw(sr, type, numeric, num, den, latest) ==
    IF ~numeric THEN [sr EXCEPT !.state = NoneInt]
    ELSE IF ~latest.some THEN [sr EXCEPT !.state = Some(Rounded(type, num, den))]
    ELSE [sr EXCEPT !.state = Some(Rounded(type, num, den)),
                    !.last_updated = Some(Format(latest.v))]

\* BaseSensor._update_state(value, timestamp): round raises on a value that is
\* no number, date_parse raises on the "" passed when no time was parsed; the
\* except leaves what was assigned before.
UpdateState(sr, type, numeric, num, den, latest) ==
    IF ~numeric THEN sr
    ELSE IF ~latest.some THEN [sr EXCEPT !.state = Some(Rounded(type, num, den))]
    ELSE [sr EXCEPT !.state = Some(Rounded(type, num, den)),
                    !.last_updated = Some(Format(latest.v))]

\* The part of async_update under `if data:`.  out is the way the call ends:
\* "nomatch" (values empty), "error" (mean raised, caught by the outer except)
\* or "wrote" (async_write_ha_state called).
Compute(sr, cfg, type, data) ==
    LET sc == Scan(cfg, type, data, EmptyScan)
        withIds == [sr EXCEPT !.source_ids = @ \o sc.ids]
        n == Len(sc.values)
    IN  IF n = 0 THEN [sr |-> withIds, out |-> "nomatch"]
        ELSE IF cfg.kind # "ids" /\ n = 1
        THEN [sr |-> UpdateState(withIds, type, sc.values[1].numeric,
                                 sc.values[1].value, 1, sc.latest),
              out |-> "wrote"]
        ELSE IF ~AllNumeric(sc.values) THEN [sr |-> withIds, out |-> "error"]
        ELSE [sr |-> UpdateState(withIds, type, TRUE, SumValues(sc.values), n,
                                 sc.latest),
              out |-> "wrote"]

\* What extra_state_attributes exposes as source_sensors: _source_ids for an
\* OptimizedSensor, the configured _sensor_ids for an AggregatedSensor.
SourceSensors(sr, cfg) ==
    IF cfg.kind = "ids" THEN [list |-> <<>>, set |-> cfg.ids]
    ELSE [list |-> sr.source_ids, set |-> {}]

\* The reading a sensor exposes: state, last_updated, source_sensors.
Reading(sr, cfg) ==
    [state |-> sr.state, last_updated |-> sr.last_updated,
     source_sensors |-> SourceSensors(sr, cfg)]

\* A fetch result: None (failure) or the response bytes.
FetchFailed == [ok |-> FALSE, raw |-> Payload("", 0, "bad", FALSE, <<>>)]

Fetched(raw) == [ok |-> TRUE, raw |-> raw]

\* `if raw_data:` is false for None and for an empty body
HasBody(r) == r.ok /\ r.raw.name # "emptyBody"

\* async_update up to its first await: _source_ids is reset, then either the
\* cached document is used (the call ends) or fetch_data is awaited.
BeginUpdate(sr, cfg, type, c, t) ==
    LET sr0 == [sr EXCEPT !.source_ids = <<>>]
        data == GetData(c, t)
    IN  IF Truthy(data)
        THEN [sr |-> Compute(sr0, cfg, type, data.v).sr, suspended |-> FALSE,
              out |-> Compute(sr0, cfg, type, data.v).out]
        ELSE [sr |-> sr0, suspended |-> TRUE, out |-> "await"]

\* async_update from the return of its awaited fetch_data to its end.
ResumeUpdate(sr, cfg, type, c, r, t) ==
    IF HasBody(r)
    THEN LET c1 == CacheUpdate(c, r.raw, t).cache
             data == GetData(c1, t)
         IN  IF Truthy(data)
             THEN [sr |-> Compute(sr, cfg, type, data.v).sr, cache |-> c1,
                   out |-> Compute(sr, cfg, type, data.v).out]
             ELSE [sr |-> sr, cache |-> c1, out |-> "nodata"]
    ELSE [sr |-> sr, cache |-> c, out |-> "nofetch"]

\* The document async_update has in `data` after its awaited fetch_data
\* returned r: None when the fetch failed or the cache gives none.
Refetched(c, r, t) ==
    IF HasBody(r) THEN GetData(CacheUpdate(c, r.raw, t).cache, t) ELSE NoneDoc

\* ------------------------------------------------------------------ actions

NoCall ==
    [op |-> "none", raw |-> Payload("", 0, "bad", FALSE, <<>>), pre |-> EmptyCache,
     at |-> 0, decoded |-> FALSE, raised |-> FALSE, result |-> NoneDoc]

\* Loop tasks that can be created.
MaxTasks == 2

TaskIds == 1..MaxTasks

\* fetch_data calls in one run.
MaxFetches == 5

\* The reading of a sensor that has none.
NoReading ==
    [state |-> NoneInt, last_updated |-> NoneInt,
     source_sensors |-> [list |-> <<>>, set |-> {}]]

\* Entities removed from the platform.
MaxRemovals == 1

\* Entities removed where registrations race with the notify phase.
RaceRemovals == 3

\* A sensor object before __init__ ran.  odpc and odpre belong to the
\* platform's call of its async_update: where it stands, and the reading the
\* sensor exposed when the call began.
NewSensor ==
    [life |-> "none", odpc |-> "idle", odpre |-> NoReading, state |-> NoneInt,
     last_updated |-> NoneInt, source_ids |-> <<>>]

\* A task that was not created.
NoLoop ==
    [pc |-> "none", wake |-> 0, used |-> 0, ahead |-> {}, cur |-> NoSensor,
     curpre |-> NoReading, nfetch |-> 0, began |-> {}, notified |-> {},
     docs |-> {}, renotified |-> FALSE, strayed |-> FALSE, fail |-> "none"]

NoEvent == [s |-> NoSensor, out |-> "none", by |-> "none", pre |-> NoReading]

Cfg(s) == PlatformCfg(s[1])

\* _sensors = set(): a table of PySet_MINSIZE slots, none of them deleted.
EmptyTable == [mask |-> 7, dummies |-> 0]

\* The size set_table_resize gives the table: the first power of two from n
\* on that is larger than minused.
RECURSIVE NewSize(_, _)
NewSize(n, minused) == IF n > minused THEN n ELSE NewSize(2 * n, minused)

\* _sensors.add(sensor) of an object the set does not hold, the set holding
\* `used` objects: the object takes a deleted slot its probe meets, or an
\* unused slot, and then the table is rebuilt when fill*5 >= mask*3.  Which
\* slot the probe meets depends on the object's address.
AddEntry(used, tb) ==
    (IF tb.dummies > 0
     THEN {[tbl |-> [tb EXCEPT !.dummies = @ - 1], resized |-> FALSE]}
     ELSE {})
    \cup
    (IF (used + tb.dummies + 1) * 5 < tb.mask * 3
     THEN {[tbl |-> tb, resized |-> FALSE]}
     ELSE {[tbl |-> [mask |-> NewSize(8, (used + 1) * 4) - 1, dummies |-> 0],
            resized |-> TRUE]})

\* n calls of register_sensor in a row, each of a new object.
RECURSIVE AddEntries(_, _, _)
AddEntries(used, tb, n) ==
    IF n = 0 THEN {[tbl |-> tb, resized |-> FALSE]}
    ELSE UNION { { [tbl |-> o2.tbl, resized |-> o1.resized \/ o2.resized] :
                       o2 \in AddEntries(used + 1, o1.tbl, n - 1) } :
                 o1 \in AddEntry(used, tb) }

\* _sensors.discard(sensor) of an object the set holds: its slot is marked
\* deleted and stays in the table.
DiscardEntry(tb) == [tb EXCEPT !.dummies = @ + 1]

\* The state after import, with the platforms of `configured` declared in the
\* configuration.
InitWith(configured) ==
    /\ now = 0
    /\ cache = EmptyCache
    /\ call = NoCall
    /\ session = FALSE
    /\ task = 0
    /\ loops = [t \in TaskIds |-> NoLoop]
    /\ sensors = {}
    /\ tbl = EmptyTable
    /\ sens = [s \in AllSensors |-> NewSensor]
    /\ setup = [p \in AllPlatforms |-> IF p \in configured THEN "idle" ELSE "off"]
    /\ fetches = 0
    /\ ev = NoEvent

\* An _update_loop task runs between two of its awaits: nothing else runs on
\* the event loop until it suspends.
Busy == \E t \in TaskIds : loops[t].pc = "iter"

\* The number of fetch_data calls awaiting their response.
InFlight ==
    Cardinality({t \in TaskIds : loops[t].pc \in {"fetch", "notify_fetch"}})
    + Cardinality({s \in AllSensors : sens[s].odpc = "fetch"})
    + Cardinality({p \in AllPlatforms : setup[p] = "fetch"})

\* A created task has not run yet, or add_entities has not yet called
\* async_update of a new entity: the event loop runs them at once.
Scheduled ==
    \/ \E t \in TaskIds : loops[t].pc = "new"
    \/ \E s \in AllSensors : sens[s].life = "new" /\ sens[s].odpc = "idle"

\* The clock advances by d.  A fetch_data call ends within REQUEST_TIMEOUT,
\* so that no d minutes pass while one is awaited, nor while a task waits
\* for its first run.
Tick(d) ==
    /\ ~Busy
    /\ InFlight = 0
    /\ ~Scheduled
    /\ now + d <= MaxTime
    /\ now' = now + d
    /\ UNCHANGED <<cache, call, progVars>>

\* A direct call CompressedJSONCache.update(raw).
DirectUpdate ==
    \E raw \in CachePayloads :
        LET r == CacheUpdate(cache, raw, now) IN
        /\ cache' = r.cache
        /\ call' = [NoCall EXCEPT !.op = "update", !.raw = raw, !.pre = cache,
                                   !.at = now, !.decoded = r.decoded,
                                   !.raised = r.raised]
        /\ UNCHANGED <<now, progVars>>

\* A direct call CompressedJSONCache.get_data().
DirectGet ==
    /\ call' = [NoCall EXCEPT !.op = "get", !.pre = cache, !.at = now,
                               !.result = GetData(cache, now)]
    /\ UNCHANGED <<now, cache, progVars>>

NextCache == Tick(1) \/ DirectUpdate \/ DirectGet

InitCache == InitWith({})

SpecCache == InitCache /\ [][NextCache]_vars

\* -------------------------------------------------------- BackgroundUpdater

\* _task.done(): the task was cancelled or an exception left _update_loop.
Done(l) == l.pc \in {"cancelled", "failed"}

\* start() that creates a task at every call
StartAlways(tk, ls) == TRUE

\* The test of start(): `not cls._task or cls._task.done()`.
StartCreates(tk, ls) == tk = 0 \/ Done(ls[tk])

\* The number asyncio.create_task gives the next task.
FreeTask(ls) == CHOOSE t \in TaskIds : ls[t].pc = "none" /\ \A u \in 1..(t - 1) : ls[u].pc # "none"

HasFreeTask(ls) == \E t \in TaskIds : ls[t].pc = "none"

\* An exception in the loop's body that ends the task
LoopDiesOnError(l, t, kind) ==
    [l EXCEPT !.pc = "failed", !.fail = kind]

\* `except Exception` of _update_loop, then asyncio.sleep(SCAN_INTERVAL).
LoopAfterError(l, t, kind) ==
    [l EXCEPT !.pc = "sleep", !.wake = t + SCAN_INTERVAL, !.fail = kind]

\* a cycle whose end is the end of the task
LoopEnds(l, t) == [l EXCEPT !.pc = "failed"]

\* The end of a cycle's body: asyncio.sleep(SCAN_INTERVAL).
LoopSleeps(l, t) == [l EXCEPT !.pc = "sleep", !.wake = t + SCAN_INTERVAL]

\* next() of the iterator of `for sensor in cls._sensors`: RuntimeError when
\* the set's size is not the one the iterator began with, else the next entry
\* the iterator has still to reach (a discarded entry is skipped), else
\* StopIteration.  The set's order is not known: any entry ahead may be next.
IterNext(l, registry) ==
    IF Cardinality(registry) # l.used THEN [kind |-> "raise", from |-> {}]
    ELSE IF l.ahead \cap registry = {} THEN [kind |-> "stop", from |-> {}]
    ELSE [kind |-> "yield", from |-> l.ahead \cap registry]

\* The task starts, or wakes from its sleep, and calls fetch_data.
LoopRun(t) ==
    /\ ~Busy
    /\ \/ loops[t].pc = "new"
       \/ loops[t].pc = "sleep" /\ now >= loops[t].wake
    /\ loops' = [loops EXCEPT ![t] = [@ EXCEPT !.pc = "fetch", !.nfetch = 1,
                                               !.began = {}, !.notified = {},
                                               !.docs = {}, !.ahead = {}]]
    /\ fetches < MaxFetches
    /\ fetches' = fetches + 1
    /\ session' = TRUE
    /\ ev' = NoEvent
    /\ UNCHANGED <<now, cache, call, task, sensors, tbl, sens, setup>>

\* The loop's fetch_data returns r; on a body, the cache is updated and the
\* iteration over _sensors begins.
LoopFetchDone(t, r) ==
    /\ ~Busy
    /\ loops[t].pc = "fetch"
    /\ IF HasBody(r)
       THEN /\ cache' = CacheUpdate(cache, r.raw, now).cache
            /\ loops' = [loops EXCEPT ![t] =
                  [@ EXCEPT !.pc = "iter", !.used = Cardinality(sensors),
                            !.ahead = sensors, !.began = sensors,
                            !.renotified = FALSE,
                            !.strayed = FALSE,
                            !.fail = IF ~DecodeBoth(r.raw).some /\ Some(r.raw.crc) # cache.hash
                                     THEN "decode" ELSE "none"]]
       ELSE /\ cache' = cache
            /\ loops' = [loops EXCEPT ![t] =
                  LoopSleeps([@ EXCEPT !.fail = IF r.ok THEN "none" ELSE "fetch"], now)]
    /\ ev' = NoEvent
    /\ UNCHANGED <<now, call, session, task, sensors, tbl, sens, setup, fetches>>

\* One step of `for sensor in cls._sensors: await sensor.async_update()`: the
\* iterator raises RuntimeError when the set's size changed, stops when no
\* entry is left, or yields an entry whose async_update then runs to its end
\* or to its await.
LoopIter(t) ==
    /\ loops[t].pc = "iter"
    /\ IF IterNext(loops[t], sensors).kind = "raise"
       THEN /\ loops' = [loops EXCEPT ![t] = LoopAfterError(@, now, "iter")]
            /\ ev' = NoEvent
            /\ UNCHANGED <<sens, session, fetches>>
       ELSE IF IterNext(loops[t], sensors).kind = "stop"
       THEN /\ loops' = [loops EXCEPT ![t] = LoopSleeps(@, now)]
            /\ ev' = NoEvent
            /\ UNCHANGED <<sens, session, fetches>>
       ELSE \E s \in IterNext(loops[t], sensors).from :
            LET b == BeginUpdate(sens[s], Cfg(s), s[2], cache, now)
                pre == Reading(sens[s], Cfg(s))
                seen == [loops[t] EXCEPT !.ahead = @ \ {s},
                                         !.renotified = @ \/ s \in loops[t].notified,
                                         !.strayed = @ \/ s \notin sensors,
                                         !.notified = @ \cup {s}]
            IN  /\ sens' = [sens EXCEPT ![s] = b.sr]
                /\ IF b.suspended
                   THEN /\ loops' = [loops EXCEPT ![t] =
                              [seen EXCEPT !.pc = "notify_fetch", !.cur = s,
                                           !.curpre = pre, !.nfetch = @ + 1]]
                        /\ fetches < MaxFetches
                        /\ fetches' = fetches + 1
                        /\ session' = TRUE
                        /\ ev' = NoEvent
                   ELSE /\ loops' = [loops EXCEPT ![t] =
                              [seen EXCEPT !.docs = @ \cup {GetData(cache, now)}]]
                        /\ fetches' = fetches
                        /\ session' = session
                        /\ ev' = [s |-> s, out |-> b.out, by |-> "loop", pre |-> pre]
    /\ UNCHANGED <<now, cache, call, task, sensors, tbl, setup>>

\* The fetch_data awaited by the sensor the loop is notifying returns r.
LoopSensorFetchDone(t, r) ==
    /\ ~Busy
    /\ loops[t].pc = "notify_fetch"
    /\ LET s == loops[t].cur
           u == ResumeUpdate(sens[s], Cfg(s), s[2], cache, r, now)
       IN  /\ sens' = [sens EXCEPT ![s] = u.sr]
           /\ cache' = u.cache
           /\ ev' = [s |-> s, out |-> u.out, by |-> "loop", pre |-> loops[t].curpre]
           /\ loops' = [loops EXCEPT ![t] =
                  [@ EXCEPT !.pc = "iter", !.cur = NoSensor, !.curpre = NoReading,
                            !.docs = @ \cup {Refetched(cache, r, now)}]]
    /\ UNCHANGED <<now, call, session, task, sensors, tbl, setup, fetches>>

\* The event loop cancels the task at one of its awaits: CancelledError is no
\* Exception and leaves _update_loop.
Cancel(t) ==
    /\ ~Busy
    /\ loops[t].pc \in {"new", "fetch", "notify_fetch", "sleep"}
    /\ loops' = [loops EXCEPT ![t] = [@ EXCEPT !.pc = "cancelled", !.cur = NoSensor,
                                               !.curpre = NoReading]]
    /\ ev' = NoEvent
    /\ UNCHANGED <<now, cache, call, session, task, sensors, tbl, sens,
                 setup, fetches>>

\* ------------------------------------------------------ async_setup_platform

\* async_setup_platform is called and awaits its pre-load fetch_data.
SetupStart(p) ==
    /\ ~Busy
    /\ setup[p] = "idle"
    /\ setup' = [setup EXCEPT ![p] = "fetch"]
    /\ fetches < MaxFetches
    /\ fetches' = fetches + 1
    /\ session' = TRUE
    /\ ev' = NoEvent
    /\ UNCHANGED <<now, cache, call, task, loops, sensors, tbl, sens>>

\* The pre-load fetch returns r: the cache is updated, start() is called, the
\* platform's sensors are constructed (each registers itself in __init__) and
\* handed to add_entities.  A running iteration of the loop finds each new
\* entry before or behind its position; when the table was rebuilt it finds
\* any of the entries before its position, those it has visited included.
SetupFetchDone(p, r) ==
    /\ ~Busy
    /\ setup[p] = "fetch"
    /\ StartCreates(task, loops) => HasFreeTask(loops)
    /\ cache' = (IF HasBody(r) THEN CacheUpdate(cache, r.raw, now).cache ELSE cache)
    /\ task' = (IF StartCreates(task, loops) THEN FreeTask(loops) ELSE task)
    /\ \E o \in AddEntries(Cardinality(sensors), tbl, Cardinality(UNITS)),
          X \in [{t \in TaskIds : loops[t].pc = "notify_fetch"} ->
                    SUBSET (sensors \cup ({p} \X UNITS))] :
          /\ tbl' = o.tbl
          /\ loops' = [t \in TaskIds |->
                IF StartCreates(task, loops) /\ t = FreeTask(loops)
                THEN [NoLoop EXCEPT !.pc = "new"]
                ELSE IF loops[t].pc = "notify_fetch"
                THEN [loops[t] EXCEPT !.ahead =
                         IF o.resized THEN X[t]
                         ELSE @ \cup (X[t] \cap ({p} \X UNITS))]
                ELSE loops[t]]
    /\ sensors' = sensors \cup ({p} \X UNITS)
    /\ sens' = [s \in AllSensors |->
                  IF s[1] = p THEN [NewSensor EXCEPT !.life = "new"] ELSE sens[s]]
    /\ setup' = [setup EXCEPT ![p] = "done"]
    /\ ev' = NoEvent
    /\ UNCHANGED <<now, call, session, fetches>>

\* ---------------------------------------------------------- entity platform

\* The platform's call of async_update for sensor record sr, begun.
PlatformBegin(sr, s, c, t) ==
    LET b == BeginUpdate(sr, Cfg(s), s[2], c, t)
    IN  IF b.suspended
        THEN [b.sr EXCEPT !.odpc = "fetch", !.odpre = Reading(sr, Cfg(s))]
        ELSE [b.sr EXCEPT !.life = "added"]

\* add_entities(..., True): the platform calls async_update of each new entity
\* of the platform before it adds it; each call runs up to its first await.
\* ev records one of the calls that completed without suspending.
AddEntities(p) ==
    /\ ~Busy
    /\ setup[p] = "done"
    /\ LET batch == {s \in {p} \X UNITS :
                        sens[s].life = "new" /\ sens[s].odpc = "idle"}
           susp  == {s \in batch :
                        BeginUpdate(sens[s], Cfg(s), s[2], cache, now).suspended}
       IN  /\ batch # {}
           /\ sens' = [s \in AllSensors |->
                          IF s \in batch
                          THEN PlatformBegin(sens[s], s, cache, now)
                          ELSE sens[s]]
           /\ fetches' = fetches + Cardinality(susp)
           /\ fetches' <= MaxFetches
           /\ session' = (session \/ susp # {})
           /\ IF batch = susp
              THEN ev' = NoEvent
              ELSE \E s \in batch \ susp :
                      ev' = [s |-> s,
                             out |-> BeginUpdate(sens[s], Cfg(s), s[2],
                                                 cache, now).out,
                             by |-> "platform",
                             pre |-> Reading(sens[s], Cfg(s))]
    /\ UNCHANGED <<now, cache, call, task, loops, sensors, tbl, setup>>

\* The fetch_data awaited by the platform's call of async_update returns r.
OnDemandFetchDone(s, r) ==
    /\ ~Busy
    /\ sens[s].odpc = "fetch"
    /\ LET u == ResumeUpdate(sens[s], Cfg(s), s[2], cache, r, now)
       IN  /\ sens' = [sens EXCEPT ![s] =
                  [u.sr EXCEPT !.odpc = "idle", !.odpre = NoReading,
                               !.life = IF @ = "new" THEN "added" ELSE @]]
           /\ cache' = u.cache
           /\ ev' = [s |-> s, out |-> u.out, by |-> "platform",
                     pre |-> sens[s].odpre]
    /\ UNCHANGED <<now, call, session, task, loops, sensors, tbl, setup,
                 fetches>>

\* The entity is removed: async_will_remove_from_hass unregisters it.
Remove(s) ==
    /\ ~Busy
    /\ sens[s].life = "added"
    /\ sens' = [sens EXCEPT ![s] = [@ EXCEPT !.life = "removed"]]
    /\ sensors' = sensors \ {s}
    /\ tbl' = DiscardEntry(tbl)
    /\ ev' = NoEvent
    /\ UNCHANGED <<now, cache, call, session, task, loops, setup, fetches>>

\* ---------------------------------------------------------- specifications

\* What fetch_data returns: None, or the body of a 2xx response.
Responses ==
    { FetchFailed,
      Fetched(Payload("plainAB", 1, "bad", TRUE, DocAB)),
      Fetched(Payload("gzipB", 2, "ok", TRUE, DocB)),
      Fetched(Payload("garbage", 3, "bad", FALSE, <<>>)),
      Fetched(Payload("emptyBody", 0, "bad", FALSE, <<>>)) }

\* The steps of the program, with the responses the pre-load fetch and the
\* other fetches can get.
Program(first, later) ==
    \/ Tick(CACHE_TTL)
    \/ \E p \in AllPlatforms : SetupStart(p)
    \/ \E p \in AllPlatforms, r \in first : SetupFetchDone(p, r)
    \/ \E p \in AllPlatforms : AddEntities(p)
    \/ \E t \in TaskIds : LoopRun(t)
    \/ \E t \in TaskIds, r \in later : LoopFetchDone(t, r)
    \/ \E t \in TaskIds : LoopIter(t)
    \/ \E t \in TaskIds, r \in later : LoopSensorFetchDone(t, r)
    \/ \E s \in AllSensors, r \in later : OnDemandFetchDone(s, r)

Removed == Cardinality({x \in AllSensors : sens[x].life = "removed"})

\* What Home Assistant and the user do to the program: at most `limit`
\* entities are removed.
Environment(limit) ==
    \/ \E t \in TaskIds : Cancel(t)
    \/ Removed < limit /\ \E s \in AllSensors : Remove(s)

\* One platform, configured with sensor_id.
Init == InitWith({"P1"})

Next == Program(Responses, Responses) \/ Environment(MaxRemovals)

Spec == Init /\ [][Next]_vars

\* Two platforms, set up concurrently.
InitTwo == InitWith({"P1", "P2"})

ResponsesTwo ==
    { FetchFailed,
      Fetched(Payload("plainAB", 1, "bad", TRUE, DocAB)),
      Fetched(Payload("garbage", 3, "bad", FALSE, <<>>)) }

NextTwo ==
    \/ Program(ResponsesTwo, ResponsesTwo)
    \/ \E t \in TaskIds : Cancel(t)

SpecTwo == InitTwo /\ [][NextTwo]_vars

\* Two platforms whose entities come and go while the loop notifies.
ResponsesRace ==
    { FetchFailed,
      Fetched(Payload("plainAB", 1, "bad", TRUE, DocAB)),
      Fetched(Payload("gzipB", 2, "ok", TRUE, DocB)) }

RepeatRace == { Fetched(Payload("plainAB", 1, "bad", TRUE, DocAB)) }

NextRace ==
    \/ Program(ResponsesRace, RepeatRace)
    \/ Removed < RaceRemovals /\ \E s \in AllSensors : Remove(s)

SpecRace == InitTwo /\ [][NextRace]_vars

\* One platform of any of the three kinds; its pre-load fetch gets one of
\* WideResponses.
InitWide == \E p \in AllPlatforms : InitWith({p})

ValueChoices ==
    << [numeric |-> TRUE, value |-> 2025], [numeric |-> TRUE, value |-> 2250],
       [numeric |-> TRUE, value |-> 4550], [numeric |-> FALSE, value |-> 0] >>

TimeChoices ==
    << [kind |-> "absent", at |-> 0], [kind |-> "bad", at |-> 0],
       [kind |-> "ok", at |-> 7], [kind |-> "ok", at |-> 10] >>

PolChoices ==
    << <<"Temperature", "Temperature">>, <<"Temperature", "Humidity">>,
       <<"Humidity", "Humidity">> >>

\* Station A followed by a second station: A again, B of the same city, or C
\* of another city.
SecondStations == << <<"A", "K">>, <<"B", "K">>, <<"C", "L">> >>

WideDoc(i, pp, v1, v2, t1, t2) ==
    << Station("A", "K",
               << [pol |-> PolChoices[pp][1], numeric |-> ValueChoices[v1].numeric,
                   value |-> ValueChoices[v1].value, time |-> TimeChoices[t1]] >>),
       Station(SecondStations[i][1], SecondStations[i][2],
               << [pol |-> PolChoices[pp][2], numeric |-> ValueChoices[v2].numeric,
                   value |-> ValueChoices[v2].value, time |-> TimeChoices[t2]] >>) >>

WidePayload(i, pp, v1, v2, t1, t2) ==
    Payload("wide", 100 + (((((i * 3 + pp) * 4 + v1) * 4 + v2) * 4 + t1) * 4 + t2),
            "bad", TRUE, WideDoc(i, pp, v1, v2, t1, t2))

\* A failed fetch; all values with both times parsed; all times with two
\* numbers.
WideResponses ==
    { FetchFailed }
    \cup
    { Fetched(WidePayload(i, pp, v1, v2, 3, 4)) :
        i \in 1..3, pp \in 1..3, v1 \in 1..4, v2 \in 1..4 }
    \cup
    { Fetched(WidePayload(i, 1, 1, 2, t1, t2)) : i \in 1..2, t1 \in 1..4, t2 \in 1..4 }

DocNullA ==
    << Station("A", "K", << Obs("Temperature", FALSE, 0, "ok", 13) >>) >>

\* Station A reporting a number without a time.
DocNoTimeA ==
    << Station("A", "K", << Obs("Temperature", TRUE, 2100, "absent", 0) >>) >>

ResponsesWide ==
    { FetchFailed,
      Fetched(Payload("gzipB", 2, "ok", TRUE, DocB)),
      Fetched(Payload("nullA", 8, "bad", TRUE, DocNullA)),
      Fetched(Payload("noTimeA", 9, "bad", TRUE, DocNoTimeA)) }

NextWide == Program(WideResponses, ResponsesWide)

SpecWide == InitWide /\ [][NextWide]_vars

\* ------------------------------------------------------------------- claims

\* C1: an update whose payload has the fingerprint already stored leaves
\* _data, _hash and _last_update as they were and attempts no decode.
C1_EqualFingerprintNoOp ==
    (call.op = "update" /\ call.pre.hash = Some(call.raw.crc))
        => (cache = call.pre /\ ~call.decoded)

\* C1 witness: such an update happened with bytes that decode to another
\* document than the stored one, later than the store.
C1_Witness ==
    /\ call.op = "update"
    /\ call.pre.hash = Some(call.raw.crc)
    /\ DecodeBoth(call.raw).some
    /\ DecodeBoth(call.raw) # call.pre.data
    /\ call.at > call.pre.last_update.v

\* C2: get_data returns the stored document only at an age below CACHE_TTL,
\* and None whenever nothing was stored or the age is CACHE_TTL or more.
C2_FreshnessWindow ==
    call.op = "get" =>
        LET fresh == /\ call.pre.last_update.some
                     /\ call.at - call.pre.last_update.v < CACHE_TTL
        IN  /\ call.result.some => (fresh /\ call.result = call.pre.data)
            /\ ~fresh => ~call.result.some

\* C2 witness: a stored document read at an age of exactly CACHE_TTL gave None.
C2_Witness ==
    /\ call.op = "get"
    /\ Truthy(call.pre.data)
    /\ call.at - call.pre.last_update.v = CACHE_TTL
    /\ ~call.result.some

\* C3: an update with bytes that fail both decode paths raises nothing and
\* leaves _data, _hash and _last_update as they were, so that any decodable
\* payload with another fingerprint is stored by the next update.
C3_DecodeFailureKeepsState ==
    (call.op = "update" /\ call.raw.gz = "bad" /\ ~call.raw.valid)
        => /\ cache = call.pre
           /\ ~call.raised
           /\ \A r2 \in CachePayloads :
                (DecodeBoth(r2).some /\ Some(r2.crc) # call.pre.hash)
                    => CacheUpdate(cache, r2, now).cache = Stored(r2, now)

\* C3 witness: undecodable bytes with a new fingerprint arrived while a valid
\* document was stored.
C3_Witness ==
    /\ call.op = "update"
    /\ call.raw.gz = "bad" /\ ~call.raw.valid
    /\ Truthy(call.pre.data)
    /\ Some(call.raw.crc) # call.pre.hash

\* The tasks that run _update_loop: created and neither cancelled nor ended.
ActiveTasks == {t \in TaskIds : loops[t].pc # "none" /\ ~Done(loops[t])}

\* C4: whatever start() calls were made, by one platform setup after another
\* or by several at once, at most one _update_loop task is active, and it is
\* the one _task refers to.
C4_OneActiveLoop ==
    /\ Cardinality(ActiveTasks) <= 1
    /\ ActiveTasks \subseteq {task}

\* C4 witness: two platform setups have called start() and one task exists,
\* still active.
C4_Witness ==
    /\ setup["P1"] = "done"
    /\ setup["P2"] = "done"
    /\ ActiveTasks = {1}
    /\ loops[2].pc = "none"

\* C5: no step ends an _update_loop task with an error; a cycle leaves its
\* fetch for the notify phase or the sleep, leaves the notify phase for the
\* sleep only, the sleep lasts SCAN_INTERVAL from where it began, and the
\* task leaves its sleep only to call fetch_data again (or by cancellation).
C5_LoopSurvivesFailure ==
    [][\A t \in TaskIds :
          /\ loops'[t].pc # "failed"
          /\ (loops[t].pc = "fetch" /\ loops'[t].pc # "fetch")
                => loops'[t].pc \in {"iter", "sleep", "cancelled"}
          /\ (loops[t].pc = "iter" /\ loops'[t].pc # "iter")
                => loops'[t].pc \in {"notify_fetch", "sleep"}
          /\ (loops[t].pc # "sleep" /\ loops'[t].pc = "sleep")
                => loops'[t].wake = now + SCAN_INTERVAL
          /\ (loops[t].pc = "sleep" /\ loops'[t].pc \notin {"sleep", "cancelled"})
                => /\ loops'[t].pc = "fetch"
                   /\ fetches' = fetches + 1
                   /\ now >= loops[t].wake]_vars

\* C5 witness: a cycle failed (its fetch returned None, or the iteration over
\* _sensors raised) and the task is awaiting the fetch of the next cycle.
C5_Witness ==
    \E t \in TaskIds :
        /\ loops[t].pc = "fetch"
        /\ loops[t].fail \in {"fetch", "iter"}
        /\ now >= SCAN_INTERVAL

\* C6 (as the specification states it): in one cycle the loop starts
\* async_update of no sensor that was unregistered and of no sensor twice.
C6_NotifiedOncePerCycle ==
    \A t \in TaskIds : ~loops[t].strayed /\ ~loops[t].renotified

\* C7 (as the specification states it): a cycle of _update_loop issues one
\* fetch_data call, from its start to its sleep.
C7_OneFetchPerCycle ==
    \A t \in TaskIds : loops[t].nfetch <= 1

\* C8 (as the specification states it): an async_update that found no data
\* (no document after a failed or useless refetch, or no matching
\* observation) leaves state, last_updated and source_sensors as they were.
C8_NoDataKeepsReading ==
    ev.out \in {"nofetch", "nodata", "nomatch"}
        => Reading(sens[ev.s], Cfg(ev.s)) = ev.pre

\* C9: a sensor's state that is not None is never None again, and it changes
\* only in an async_update of that sensor that reached async_write_ha_state.
C9_NeverBackToUnknown ==
    [][\A s \in AllSensors :
          sens[s].state.some
             => /\ sens'[s].state.some
                /\ sens'[s].state # sens[s].state
                      => (ev'.s = s /\ ev'.out = "wrote")]_vars

\* C9 witness: a sensor that has a state went through an async_update that
\* found no data, or no number, and still has it.
C9_Witness ==
    /\ ev.out \in {"nofetch", "nomatch", "error"}
    /\ ev.pre.state.some
    /\ sens[ev.s].state = ev.pre.state

\* The observations of the cached document that the sensor of the last
\* async_update matches.
MatchedValues == Scan(Cfg(ev.s), ev.s[2], cache.data.v, EmptyScan).values

\* C10: after an async_update that matched k >= 1 numeric values, the state
\* is their mean (the value itself for k = 1) rounded to the nearest tenth
\* for Temperature and to the nearest whole number for the other metrics.
C10_MeanRoundedPerPolicy ==
    (ev.out = "wrote" /\ cache.data.some /\ AllNumeric(MatchedValues))
        => LET k   == Len(MatchedValues)
               sum == SumValues(MatchedValues)
               st  == sens[ev.s].state
               Abs(x) == IF x < 0 THEN -x ELSE x
           IN  /\ k >= 1
               /\ st.some
               /\ IF ev.s[2] = "Temperature"
                  THEN st.v % 10 = 0 /\ Abs(k * st.v - sum) <= 5 * k
                  ELSE Abs(100 * k * st.v - sum) <= 50 * k

\* C10 witness: a Temperature sensor averaged two numeric values whose mean
\* is no whole number of tenths.
C10_Witness ==
    /\ ev.out = "wrote"
    /\ cache.data.some
    /\ AllNumeric(MatchedValues)
    /\ sens[ev.s].state.some
    /\ ev.s[2] = "Temperature"
    /\ Len(MatchedValues) = 2
    /\ SumValues(MatchedValues) % 20 # 0

\* The observations of metric `type` the sensor's configuration matches, in
\* document order.
RECURSIVE MatchedObs(_, _, _)
MatchedObs(cfg, type, data) ==
    IF data = <<>> THEN <<>>
    ELSE LET st == Head(data)
             own == SelectSeq(st.pollutants, LAMBDA p : p.pol = type)
         IN  (IF Matches(cfg, st) /\ own # <<>> THEN <<Head(own)>> ELSE <<>>)
             \o MatchedObs(cfg, type, Tail(data))

\* The matched observations of the sensor of the last async_update.
LastMatched == MatchedObs(Cfg(ev.s), ev.s[2], cache.data.v)

\* The times of those observations that were present and parsed.
ParsedTimes ==
    {LastMatched[i].time.at :
        i \in {j \in 1..Len(LastMatched) : LastMatched[j].time.kind = "ok"}}

\* C11: after an async_update that computed a value from numeric
\* observations of which one at least has a parseable time, last_updated is
\* the latest of the parseable times, formatted, and every matched
\* observation, with or without a time, is one of the averaged values.
C11_LatestParsedTime ==
    (ev.out = "wrote" /\ cache.data.some /\ AllNumeric(MatchedValues)
        /\ ParsedTimes # {})
        => /\ sens[ev.s].last_updated.some
           /\ \E m \in ParsedTimes :
                 /\ \A x \in ParsedTimes : x <= m
                 /\ sens[ev.s].last_updated.v = Format(m)
           /\ Len(MatchedValues) = Len(LastMatched)
           /\ \A i \in 1..Len(LastMatched) :
                 MatchedValues[i].value = LastMatched[i].value

\* C11 witness: two observations were averaged, the first with a parsed
\* time and the second with a missing or unparsable one, and last_updated is
\* the first one's time.
C11_Witness ==
    /\ ev.out = "wrote"
    /\ cache.data.some
    /\ AllNumeric(MatchedValues)
    /\ Len(LastMatched) = 2
    /\ LastMatched[1].time.kind = "ok"
    /\ LastMatched[2].time.kind # "ok"
    /\ sens[ev.s].last_updated = Some(Format(LastMatched[1].time.at))

\* C12: the step in which the loop's fetch_data returns None changes nothing
\* of the cache and takes the loop to its sleep.
C12_FailedFetchSkipsCycle ==
    [][\A t \in TaskIds :
          (/\ loops[t].pc = "fetch"
           /\ loops'[t].pc \notin {"fetch", "cancelled"}
           /\ loops'[t].fail = "fetch")
             => /\ cache' = cache
                /\ loops'[t].pc = "sleep"
                /\ loops'[t].wake = now + SCAN_INTERVAL]_vars

\* C12 witness: the loop sleeps after a fetch that failed, and the cache
\* still holds the document stored before.
C12_Witness ==
    \E t \in TaskIds :
        /\ loops[t].pc = "sleep"
        /\ loops[t].fail = "fetch"
        /\ cache.data.some
        /\ cache.data.v # <<>>

\* C13 (as the specification states it): when a cycle whose fetch succeeded
\* has reached its sleep, every sensor that was registered when the notify
\* phase began and is registered still has had its async_update called in
\* that cycle, once.
C13_AllRegisteredNotified ==
    \A t \in TaskIds :
        loops[t].pc = "sleep"
            => /\ (loops[t].began \cap sensors) \subseteq loops[t].notified
               /\ ~loops[t].renotified

\* C14 (as the specification states it): at most one fetch_data call awaits
\* its response at any time.
C14_OneFetchInFlight == InFlight <= 1

\* C15 (as the specification states it): no step in which a sensor's
\* async_update ends changes _data, _hash or _last_update of the cache.
C15_SensorsReadOnly ==
    [][ev'.s # NoSensor => cache' = cache]_vars

\* C16 (as the specification states it): the sensors notified in one cycle
\* all had the same document in `data`, and none had None while another had
\* a document.
C16_OneSnapshotPerCycle ==
    \A t \in TaskIds : Cardinality(loops[t].docs) <= 1

\* C17 (as the specification states it): a sensor configured with one
\* station id that computed a value took it from the first record with that
\* id, rounded per the metric's policy.
C17_FirstRecordOnly ==
    (/\ ev.out = "wrote"
     /\ Cfg(ev.s).kind = "id"
     /\ cache.data.some
     /\ AllNumeric(MatchedValues))
        => LET first == LastMatched[1].value
               st    == sens[ev.s].state
               Abs(x) == IF x < 0 THEN -x ELSE x
           IN  /\ st.some
               /\ IF ev.s[2] = "Temperature"
                  THEN Abs(st.v - first) <= 5
                  ELSE Abs(100 * st.v - first) <= 50

\* The ids of the stations whose observation the sensor's configuration
\* matches for metric `type`, in document order.
RECURSIVE MatchedIds(_, _, _)
MatchedIds(cfg, type, data) ==
    IF data = <<>> THEN <<>>
    ELSE LET st == Head(data)
         IN  (IF Matches(cfg, st) /\ \E i \in 1..Len(st.pollutants) :
                                        st.pollutants[i].pol = type
              THEN <<st.id>> ELSE <<>>)
             \o MatchedIds(cfg, type, Tail(data))

\* C18 (as the specification states it): after an async_update that computed
\* a value, source_sensors is the list of the ids of the stations that
\* contributed, in document order, for every kind of sensor.
C18_SourceSensorsAreContributors ==
    (ev.out = "wrote" /\ cache.data.some /\ AllNumeric(MatchedValues))
        => Reading(sens[ev.s], Cfg(ev.s)).source_sensors
              = [list |-> MatchedIds(Cfg(ev.s), ev.s[2], cache.data.v),
                 set |-> {}]

\* C19 (as the specification states it): when the notify phase of a cycle
\* begins after a fetch whose payload decodes (or was decoded before), with
\* a sensor to notify, get_data() returns a document.
C19_FetchedDataAvailable ==
    \A t \in TaskIds :
        (/\ loops[t].pc = "iter"
         /\ loops[t].fail = "none"
         /\ loops[t].notified = {}
         /\ loops[t].ahead \cap sensors # {})
            => Truthy(GetData(cache, now))

\* C20 (as the specification states it): after an async_update that computed
\* a value from numeric observations and called async_write_ha_state,
\* last_updated was written by the same _update_state call: it is the
\* formatted time of one of the contributing observations.
C20_CoherentReading ==
    (ev.out = "wrote" /\ cache.data.some /\ AllNumeric(MatchedValues))
        => /\ sens[ev.s].last_updated.some
           /\ \E m \in ParsedTimes : sens[ev.s].last_updated.v = Format(m)

====
